---- MODULE Spec2Model ----
(***************************************************************************)
(* A model of the custom date field of src/src/App.tsx (the second,        *)
(* current version of the component, lines 235-589): CustomDateField, its  *)
(* useInputValue hook, createInputValue, and the way CustomFieldDatePicker *)
(* and CustomFieldFormat mount it.                                         *)
(*                                                                         *)
(* Text is a sequence of one-character strings.  A Dayjs object is a       *)
(* record: a valid one carries year, month, day and a time of day (tod,    *)
(* 0 = midnight, 1 = some later instant of the same day), an invalid one   *)
(* is Invalid, and the absent value is Null.                               *)
(***************************************************************************)
EXTENDS Integers, Sequences, FiniteSets, TLC

(***************************************************************************)
(* Bounds of the exploration.                                              *)
(***************************************************************************)
MaxNudges == 1

(***************************************************************************)
(* Characters and strings.                                                 *)
(***************************************************************************)
Digits == {"0", "1", "2", "3", "4", "5", "6", "7", "8", "9"}

DigitValue(c) ==
  CASE c = "0" -> 0 [] c = "1" -> 1 [] c = "2" -> 2 [] c = "3" -> 3
    [] c = "4" -> 4 [] c = "5" -> 5 [] c = "6" -> 6 [] c = "7" -> 7
    [] c = "8" -> 8 [] c = "9" -> 9

DigitChar(n) ==
  CASE n = 0 -> "0" [] n = 1 -> "1" [] n = 2 -> "2" [] n = 3 -> "3"
    [] n = 4 -> "4" [] n = 5 -> "5" [] n = 6 -> "6" [] n = 7 -> "7"
    [] n = 8 -> "8" [] n = 9 -> "9"

AllDigits(s) == \A i \in 1..Len(s) : s[i] \in Digits

\* String.prototype.trim: surrounding white space is dropped.
RECURSIVE trimStart(_)
trimStart(s) ==
  IF s # <<>> /\ Head(s) = " " THEN trimStart(Tail(s)) ELSE s

RECURSIVE trimEnd(_)
trimEnd(s) ==
  IF s # <<>> /\ s[Len(s)] = " " THEN trimEnd(SubSeq(s, 1, Len(s) - 1)) ELSE s

\* A blur handler that forgets to trim.
trimNothing(s) == s

trim(s) == trimEnd(trimStart(s))

\* String.prototype.toLowerCase, on the letters the inputs use.
LowerChar(c) ==
  CASE c = "D" -> "d" [] c = "M" -> "m" [] c = "Y" -> "y" [] c = "X" -> "x"
    [] OTHER -> c

\* A blur handler that forgets to lower the text.
toLowerCaseNothing(s) == s

toLowerCase(s) == [i \in 1..Len(s) |-> LowerChar(s[i])]

\* parseInt(digits, 10) on a string of decimal digits.
RECURSIVE parseInt(_)
parseInt(s) ==
  IF s = <<>> THEN 0
  ELSE 10 * parseInt(SubSeq(s, 1, Len(s) - 1)) + DigitValue(s[Len(s)])

\* String(n) for n >= 0.
RECURSIVE NumberToString(_)
NumberToString(n) ==
  IF n < 10 THEN <<DigitChar(n)>>
  ELSE NumberToString(n \div 10) \o <<DigitChar(n % 10)>>

\* String.prototype.padStart(width, "0").
RECURSIVE padStart(_, _)
padStart(s, width) ==
  IF Len(s) >= width THEN s ELSE padStart(<<"0">> \o s, width)

\* String.prototype.split("/") of a string holding exactly one slash.
SlashAt(s) == CHOOSE i \in 1..Len(s) : s[i] = "/"
BeforeSlash(s) == SubSeq(s, 1, SlashAt(s) - 1)
AfterSlash(s) == SubSeq(s, SlashAt(s) + 1, Len(s))

(***************************************************************************)
(* Calendar arithmetic of the JavaScript Date under dayjs.                 *)
(***************************************************************************)
Null == [kind |-> "null"]
Invalid == [kind |-> "invalid"]
Date(y, m, d, tod) == [kind |-> "date", y |-> y, m |-> m, d |-> d, tod |-> tod]

IsNull(v) == v.kind = "null"
isValid(v) == v.kind = "date"

\* A Date holds at most this many days on either side of 1970-01-01.
MaxEpochDay == 100000000

IsLeapYear(y) == ((y % 4) = 0 /\ (y % 100) # 0) \/ (y % 400) = 0

daysInMonth(y, m) ==
  CASE m = 2 -> IF IsLeapYear(y) THEN 29 ELSE 28
    [] m \in {4, 6, 9, 11} -> 30
    [] OTHER -> 31

Min(a, b) == IF a <= b THEN a ELSE b

\* Days from 1970-01-01 to the first-of-March-based civil date y-m-d.
DaysFromCivil(y, m, d) ==
  LET yy == IF m <= 2 THEN y - 1 ELSE y
      era == yy \div 400
      yoe == yy - era * 400
      mp == IF m > 2 THEN m - 3 ELSE m + 9
      doy == ((153 * mp + 2) \div 5) + d - 1
      doe == yoe * 365 + (yoe \div 4) - (yoe \div 100) + doy
  IN era * 146097 + doe - 719468

\* The civil date of a day number, with the given time of day; a day number
\* outside the range of Date is an Invalid Date.
CivilFromDays(z0, tod) ==
  LET z == z0 + 719468
      era == z \div 146097
      doe == z - era * 146097
      yoe == (doe - (doe \div 1460) + (doe \div 36524) - (doe \div 146096)) \div 365
      doy == doe - (365 * yoe + (yoe \div 4) - (yoe \div 100))
      mp == (5 * doy + 2) \div 153
      d == doy - ((153 * mp + 2) \div 5) + 1
      m == IF mp < 10 THEN mp + 3 ELSE mp - 9
      y == yoe + era * 400 + (IF m <= 2 THEN 1 ELSE 0)
      inRange == /\ z0 >= -MaxEpochDay
                 /\ z0 < MaxEpochDay \/ (z0 = MaxEpochDay /\ tod = 0)
  IN IF inRange THEN Date(y, m, d, tod) ELSE Invalid

\* new Date(year, monthIndex, day): month and day overflow into the next
\* months and years; a two-digit year counts from 1900.
NewDate(year, monthIndex, day) ==
  LET y0 == IF year >= 0 /\ year <= 99 THEN 1900 + year ELSE year
      y == y0 + (monthIndex \div 12)
      m == (monthIndex % 12) + 1
  IN CivilFromDays(DaysFromCivil(y, m, 1) + day - 1, 0)

\* Dayjs.add(n, "day").
AddDays(v, n) ==
  IF ~isValid(v) THEN Invalid
  ELSE CivilFromDays(DaysFromCivil(v.y, v.m, v.d) + n, v.tod)

\* Dayjs.add(n, "month"): the day is clamped to the length of the new month.
AddMonths(v, n) ==
  IF ~isValid(v) THEN Invalid
  ELSE LET total == (v.m - 1) + n
           y == v.y + (total \div 12)
           m == (total % 12) + 1
           d == Min(v.d, daysInMonth(y, m))
       IN IF isValid(CivilFromDays(DaysFromCivil(y, m, 1), v.tod))
          THEN CivilFromDays(DaysFromCivil(y, m, d), v.tod)
          ELSE Invalid

\* Dayjs.add(n, "year").
AddYears(v, n) == AddMonths(v, 12 * n)

add(v, n, unit) ==
  CASE unit = "day" -> AddDays(v, n)
    [] unit = "month" -> AddMonths(v, n)
    [] unit = "year" -> AddYears(v, n)

subtract(v, n, unit) == add(v, -n, unit)

(***************************************************************************)
(* dayjs with the customParseFormat plugin, for the format MM/DD/YYYY.     *)
(***************************************************************************)
\* The format the picker is given, as the plugin's parser sees it: fields of
\* a fixed number of digits and separators it skips by their length.
fieldFormat ==
  << [kind |-> "field", width |-> 2, name |-> "month"],
     [kind |-> "sep", width |-> 1, name |-> "/"],
     [kind |-> "field", width |-> 2, name |-> "day"],
     [kind |-> "sep", width |-> 1, name |-> "/"],
     [kind |-> "field", width |-> 4, name |-> "year"] >>

\* String.prototype.slice(start) with a zero-based start.
slice(s, start) == IF start >= Len(s) THEN <<>> ELSE SubSeq(s, start + 1, Len(s))

\* RegExp.exec of /\d{width}/: the one-based index of the first run of width
\* digits, 0 when there is none.
RegexExec(s, width) ==
  LET hits == {i \in 1..(Len(s) - width + 1) : AllDigits(SubSeq(s, i, i + width - 1))}
  IN IF hits = {} THEN 0 ELSE CHOOSE i \in hits : \A j \in hits : i <= j

\* String.prototype.replace(value, ""): the first occurrence is removed.
replace(s, value) ==
  LET n == Len(value)
      hits == {i \in 1..(Len(s) - n + 1) : SubSeq(s, i, i + n - 1) = value}
      at == CHOOSE i \in hits : \A j \in hits : i <= j
  IN IF hits = {} THEN s
     ELSE SubSeq(s, 1, at - 1) \o SubSeq(s, at + n, Len(s))

ParseFailed == [failed |-> TRUE]

\* The parser makeParser builds: a separator advances start by its length
\* without looking at the input, a field takes the first match of its
\* expression in input.slice(start) and removes it from the input; a field
\* with no match throws.
RECURSIVE makeParser(_, _, _, _)
makeParser(tokens, input, start, time) ==
  IF tokens = <<>> THEN time
  ELSE LET token == Head(tokens)
       IN IF token.kind = "sep"
          THEN makeParser(Tail(tokens), input, start + token.width, time)
          ELSE LET part == slice(input, start)
                   at == RegexExec(part, token.width)
                   matched == SubSeq(part, at, at + token.width - 1)
               IN IF at = 0 THEN ParseFailed
                  ELSE makeParser(Tail(tokens), replace(input, matched), start,
                                  [time EXCEPT ![token.name] = parseInt(matched)])

\* dayjs(input, "MM/DD/YYYY") at the instant today: parseFormattedInput of
\* the plugin.  A field that parsed to 0 counts as absent; the exception of
\* a failed match is caught and gives an Invalid Date; the Date constructor
\* is not asked whether month and day exist.
dayjsParse(input, today) ==
  LET time == makeParser(fieldFormat, input, 0, [year |-> 0, month |-> 0, day |-> 0])
  IN IF time = ParseFailed THEN Invalid
     ELSE LET d == IF time.day # 0 THEN time.day
                   ELSE IF time.year = 0 /\ time.month = 0 THEN today.d ELSE 1
              y == IF time.year # 0 THEN time.year ELSE today.y
              M == IF time.year # 0 /\ time.month = 0 THEN 0
                   ELSE IF time.month > 0 THEN time.month - 1 ELSE today.m - 1
          IN NewDate(y, M, d)

\* Dayjs.format("MM/DD/YYYY").
format(v) ==
  padStart(NumberToString(v.m), 2) \o <<"/">> \o padStart(NumberToString(v.d), 2)
    \o <<"/">> \o padStart(NumberToString(v.y), 4)

\* Dayjs.isSame(that) with no unit: the same instant; never for an invalid
\* date or for null.
isSame(a, b) == isValid(a) /\ isValid(b) /\ a = b

(***************************************************************************)
(* The helper of the field.                                                *)
(***************************************************************************)
createInputValue(v) ==
  IF IsNull(v) THEN <<>>
  ELSE IF isValid(v) THEN format(v) ELSE <<>>

(***************************************************************************)
(* The state.                                                              *)
(***************************************************************************)
VARIABLES
  value,                \* CustomFieldFormat's value: pickerContext.value
  cleared,              \* CustomFieldFormat's cleared, set by onClear
  inputValue,           \* useInputValue's inputValue: the displayed text
  lastValueProp,        \* useInputValue's lastValueProp
  shouldMaintainFocus,  \* shouldMaintainFocusRef.current
  focused,              \* the input element has the focus
  selected,             \* input.select() selected the whole text
  pending,              \* what the effects have not seen yet: "mount", or the
                        \* states of the field set since they last ran
  appDirty,             \* CustomFieldFormat's state changed since its last render
  now,                  \* the instant dayjs() reads
  nudges,               \* how many shortcuts in a row changed the value
  lastEvent             \* the last event that changed the state

vars ==
  << value, cleared, inputValue, lastValueProp, shouldMaintainFocus, focused,
     selected, pending, appDirty, now, nudges, lastEvent >>

\* The instants a run may start at.
StartInstants == {Date(2024, 1, 31, 1), Date(2025, 12, 31, 0)}

\* The texts a user types.
Typed ==
  { <<>>,
    <<"d">>,
    <<" ", "D", " ">>,
    <<"d", "0">>,
    <<"D", "3", "0">>,
    <<"m", "0">>,
    <<"M", "1">>,
    <<"y", "0">>,
    <<"y", "1">>,
    <<"d", "1", "0", "0", "0", "0", "0", "0", "0", "0">>,
    <<"y", "2", "7", "3", "7", "3", "6">>,
    <<"4", "/", "5">>,
    <<"2", "/", "2", "9">>,
    <<"2", "/", "3", "0">>,
    <<"1", "3", "/", "1">>,
    <<"0", "4", "/", "0", "5", "/", "2", "0", "2", "4">>,
    <<"0", "4", "/", "0", "5", "/", "2", "0", "2", "4", "x">>,
    <<"a", "b", "c">> }

Keys == {"ArrowUp", "ArrowDown", "ArrowRight", "ArrowLeft", "Enter"}

\* clearable, as CustomFieldFormat passes it.
clearable == TRUE

Event(kind, text) == [kind |-> kind, text |-> text]

\* Every render and every effect the last event caused has run.
Settled == ~appDirty /\ pending = {}

\* A state setter that renders again whatever it is given.
SetAlways(name, current, next) == {name}

\* A state setter of the field called with next while the state is current:
\* React renders again only if the two differ.
Set(name, current, next) == IF next # current THEN {name} ELSE {}

(***************************************************************************)
(* The picker and the validation of the library, as the field uses them.   *)
(***************************************************************************)
\* The adapter's isEqual: two nulls, or two dates of the same instant; an
\* invalid date equals nothing.
areValuesEqual(a, b) ==
  \/ IsNull(a) /\ IsNull(b)
  \/ isValid(a) /\ isValid(b) /\ a = b

\* pickerContext.setValue on a controlled picker: onChange is called, and
\* CustomFieldFormat's setValue with it, unless the new value equals the
\* current one.
Published(newValue) == ~areValuesEqual(newValue, value)

\* A validation that takes every Dayjs object for a date.
validateDateLax(v) == "none"

\* validateDate: null is no error, an invalid date is the error invalidDate.
validateDate(v) ==
  IF IsNull(v) THEN "none"
  ELSE IF ~isValid(v) THEN "invalidDate" ELSE "none"

\* useValidation's hasValidationError, the error prop of the TextField.
hasValidationError == validateDate(value) # "none"

Init ==
  /\ value = Null
  /\ cleared = FALSE
  /\ inputValue = createInputValue(Null)
  /\ lastValueProp = Null
  /\ shouldMaintainFocus = FALSE
  /\ focused = FALSE
  /\ selected = FALSE
  /\ pending = {}
  /\ appDirty = FALSE
  /\ now \in StartInstants
  /\ nudges = 0
  /\ lastEvent = Event("mount", <<>>)

(***************************************************************************)
(* The handlers of CustomDateField.                                        *)
(***************************************************************************)
\* The user puts the caret into the input.
Focus ==
  /\ Settled
  /\ ~focused
  /\ focused' = TRUE
  /\ selected' = FALSE
  /\ lastEvent' = Event("focus", <<>>)
  /\ UNCHANGED << value, cleared, inputValue, lastValueProp, shouldMaintainFocus,
                  pending, appDirty, now, nudges >>

\* handleChange: typing only sets the displayed text.
handleChange(newInputValue) ==
  /\ Settled
  /\ focused
  /\ newInputValue # inputValue
  /\ inputValue' = newInputValue
  /\ pending' = Set("inputValue", inputValue, newInputValue)
  /\ selected' = FALSE
  /\ lastEvent' = Event("change", <<>>)
  /\ UNCHANGED << value, cleared, lastValueProp, shouldMaintainFocus, focused,
                  appDirty, now, nudges >>

\* /^d\d+$/, /^m\d+$/, /^y\d+$/ on the lowered text.
IsOffsetToken(lower, letter) ==
  /\ Len(lower) >= 2
  /\ lower[1] = letter
  /\ AllDigits(Tail(lower))

\* /^\d{1,2}\/\d{1,2}$/
IsShortDate(s) ==
  \E i \in 2..3 :
    /\ Len(s) \in (i + 1)..(i + 2)
    /\ s[i] = "/"
    /\ AllDigits(SubSeq(s, 1, i - 1))
    /\ AllDigits(SubSeq(s, i + 1, Len(s)))

SetBoth(newDate) == [setValue |-> TRUE, setInputValue |-> TRUE, newValue |-> newDate]
SetValueOnly(newDate) == [setValue |-> TRUE, setInputValue |-> FALSE, newValue |-> newDate]
SetNothing == [setValue |-> FALSE, setInputValue |-> FALSE, newValue |-> Null]

\* What handleBlur does with the text of the input at the instant today:
\* which of pickerContext.setValue and setInputValue it calls, and with what.
BlurOutcome(text, today) ==
  LET currentInput == trim(text)
      lower == toLowerCase(currentInput)
  IN IF lower = <<"d">> THEN SetBoth(today)
     ELSE IF IsOffsetToken(lower, "d")
       THEN SetBoth(add(today, parseInt(Tail(lower)), "day"))
     ELSE IF IsOffsetToken(lower, "m")
       THEN SetBoth(add(today, parseInt(Tail(lower)), "month"))
     ELSE IF IsOffsetToken(lower, "y")
       THEN SetBoth(add(today, parseInt(Tail(lower)), "year"))
     ELSE IF IsShortDate(currentInput)
       THEN LET month == BeforeSlash(currentInput)
                day == AfterSlash(currentInput)
                currentYear == today.y
                newDate == dayjsParse(padStart(month, 2) \o <<"/">> \o padStart(day, 2)
                                        \o <<"/">> \o NumberToString(currentYear), today)
            IN IF isValid(newDate) THEN SetBoth(newDate) ELSE SetNothing
     ELSE SetValueOnly(dayjsParse(currentInput, today))

handleBlur ==
  /\ Settled
  /\ focused
  /\ LET outcome == BlurOutcome(inputValue, now)
         publish == outcome.setValue /\ Published(outcome.newValue)
     IN /\ value' = IF publish THEN outcome.newValue ELSE value
        /\ appDirty' = publish
        /\ inputValue' = IF outcome.setInputValue
                         THEN createInputValue(outcome.newValue) ELSE inputValue
        /\ pending' = Set("inputValue", inputValue, inputValue')
        /\ nudges' = IF publish THEN 0 ELSE nudges
  /\ focused' = FALSE
  /\ selected' = FALSE
  /\ lastEvent' = Event("blur", inputValue)
  /\ UNCHANGED << cleared, lastValueProp, shouldMaintainFocus, now >>

\* The clear button is rendered.
ClearOffered == clearable /\ ~IsNull(value)

\* handleClearClick, on the mouse-down of the clear button: the default of
\* the event is prevented, so the input keeps the focus it has and sees no
\* blur; focus() then gives it the focus if it had none.
handleClearClick ==
  /\ Settled
  /\ ClearOffered
  /\ value' = Null
  /\ inputValue' = <<>>
  /\ pending' = Set("inputValue", inputValue, <<>>)
  /\ cleared' = TRUE
  /\ appDirty' = (Published(Null) \/ ~cleared)
  /\ focused' = TRUE
  /\ nudges' = 0
  /\ lastEvent' = Event("clear", <<>>)
  /\ UNCHANGED << lastValueProp, shouldMaintainFocus, selected, now >>

\* A handler with the two year shortcuts the wrong way round.
ShortcutDateSwapped(v, key) ==
  CASE key = "ArrowUp" -> subtract(v, 1, "year")
    [] key = "ArrowDown" -> add(v, 1, "year")
    [] key = "ArrowRight" -> add(v, 1, "month")
    [] key = "ArrowLeft" -> subtract(v, 1, "month")
    [] OTHER -> Null

\* The date a shortcut asks for; Null stands for the null newDate keeps with
\* any other key.
ShortcutDate(v, key) ==
  CASE key = "ArrowUp" -> add(v, 1, "year")
    [] key = "ArrowDown" -> subtract(v, 1, "year")
    [] key = "ArrowRight" -> add(v, 1, "month")
    [] key = "ArrowLeft" -> subtract(v, 1, "month")
    [] OTHER -> Null

\* The condition of handleKeyDown: Ctrl is held and the picker holds a Dayjs
\* object, valid or not.
ShortcutActive(ctrlKey) == ctrlKey /\ ~IsNull(value)

handleKeyDown(key, ctrlKey) ==
  /\ Settled
  /\ focused
  /\ LET newDate == IF ShortcutActive(ctrlKey) THEN ShortcutDate(value, key) ELSE Null
         acts == ~IsNull(newDate)
         publish == acts /\ Published(newDate)
     IN /\ acts => nudges < MaxNudges
        /\ nudges' = IF acts THEN nudges + 1 ELSE nudges
        /\ shouldMaintainFocus' = IF acts THEN TRUE ELSE shouldMaintainFocus
        /\ value' = IF publish THEN newDate ELSE value
        /\ appDirty' = publish
        /\ inputValue' = IF acts THEN createInputValue(newDate) ELSE inputValue
        /\ pending' = Set("inputValue", inputValue, inputValue')
        /\ lastEvent' = IF acts THEN Event("keydown", <<>>) ELSE lastEvent
  /\ UNCHANGED << cleared, lastValueProp, focused, selected, now >>

(***************************************************************************)
(* Rendering.                                                              *)
(***************************************************************************)
\* CustomFieldFormat renders again after its state changed, and with it
\* CustomFieldDatePicker, whose field slot is a function made anew by every
\* render: a component type React has not seen, so the field that was
\* mounted is unmounted, its state, its ref and its input element with it,
\* and a new CustomDateField is mounted from the useState initializers.
Remount ==
  /\ appDirty
  /\ appDirty' = FALSE
  /\ lastValueProp' = value
  /\ inputValue' = createInputValue(value)
  /\ shouldMaintainFocus' = FALSE
  /\ focused' = FALSE
  /\ selected' = FALSE
  /\ pending' = {"mount"}
  /\ UNCHANGED << value, cleared, now, nudges, lastEvent >>

\* The condition of the effect of useInputValue.
SyncCondition(v, last) ==
  \/ IsNull(v)
  \/ ~isSame(v, last)
  \/ IsNull(last) /\ ~IsNull(v)
  \/ ~IsNull(last) /\ IsNull(v)

\* The effects of one commit of the field, in the order of their hooks.
\* Each runs on mount and when one of its dependencies differs from the last
\* commit (pickerContext.value itself changes only with a render of
\* CustomFieldFormat, that is with a remount); the state they set is rendered
\* by the next commit.
\* The dependency arrays of the two effects: whether the effect runs in a
\* commit that has p to show to the effects (SyncDepsNone: an effect with no
\* dependency array runs in every commit).
SyncDepsNone(p) == TRUE
SyncDeps(p) == "mount" \in p \/ "lastValueProp" \in p
FocusDeps(p) == "mount" \in p \/ "inputValue" \in p

RunEffects ==
  /\ ~appDirty
  /\ pending # {}
  /\ LET runSync == SyncDeps(pending)
         runFocus == FocusDeps(pending)
         sync == runSync /\ SyncCondition(value, lastValueProp)
         refocus == runFocus /\ shouldMaintainFocus
         nextInput == IF sync THEN createInputValue(value) ELSE inputValue
     IN /\ lastValueProp' = IF sync THEN value ELSE lastValueProp
        /\ inputValue' = nextInput
        /\ pending' = IF sync THEN Set("lastValueProp", lastValueProp, value)
                                     \cup Set("inputValue", inputValue, nextInput)
                      ELSE {}
        /\ shouldMaintainFocus' = IF runFocus THEN FALSE ELSE shouldMaintainFocus
        /\ focused' = IF refocus THEN TRUE ELSE focused
        /\ selected' = IF refocus THEN TRUE ELSE selected
  /\ UNCHANGED << value, cleared, appDirty, now, nudges, lastEvent >>

Next ==
  \/ Focus
  \/ \E text \in Typed : handleChange(text)
  \/ handleBlur
  \/ handleClearClick
  \/ \E key \in Keys, ctrlKey \in BOOLEAN : handleKeyDown(key, ctrlKey)
  \/ Remount
  \/ RunEffects

Spec == Init /\ [][Next]_vars

\* React runs every render it has scheduled and the effects of every commit.
LiveSpec == Spec /\ WF_vars(Remount) /\ WF_vars(RunEffects)

(***************************************************************************)
(* The claims.                                                             *)
(***************************************************************************)
\* The texts that are the token "d" once trimmed and lowered.
TodayTexts == { <<"d">>, <<"D">>, <<" ", "D", " ">>, <<" ", "d">> }

\* C1: after a blur with a text that is "d" up to surrounding white space
\* and letter case, the picker value is the current instant and the
\* displayed text is today's date in the field format, not the text that was
\* typed; this holds from the handler on, through the renders that follow.
C1_BlurToday ==
  (lastEvent.kind = "blur" /\ lastEvent.text \in TodayTexts)
    => /\ value = now
       /\ inputValue = padStart(NumberToString(now.m), 2) \o <<"/">>
                         \o padStart(NumberToString(now.d), 2) \o <<"/">>
                         \o NumberToString(now.y)
       /\ inputValue # lastEvent.text

C1_Witness ==
  /\ lastEvent = Event("blur", <<" ", "D", " ">>)
  /\ Settled
  /\ now = Date(2024, 1, 31, 1)
  /\ value = now
  /\ inputValue = <<"0", "1", "/", "3", "1", "/", "2", "0", "2", "4">>

\* The offset tokens among the texts, with the number and the unit they name.
OffsetTokens ==
  { [text |-> <<"d", "0">>, n |-> 0, unit |-> "day"],
    [text |-> <<"D", "3", "0">>, n |-> 30, unit |-> "day"],
    [text |-> <<"m", "0">>, n |-> 0, unit |-> "month"],
    [text |-> <<"M", "1">>, n |-> 1, unit |-> "month"],
    [text |-> <<"y", "0">>, n |-> 0, unit |-> "year"],
    [text |-> <<"y", "1">>, n |-> 1, unit |-> "year"],
    [text |-> <<"d", "1", "0", "0", "0", "0", "0", "0", "0", "0">>,
     n |-> 100000000, unit |-> "day"],
    [text |-> <<"y", "2", "7", "3", "7", "3", "6">>, n |-> 273736, unit |-> "year"] }

\* C2, as claimed: after a blur with an offset token the picker value is the
\* date N days, months or years after the current instant, for every N, and
\* the displayed text is that date in the field format.
C2_Original ==
  \A token \in OffsetTokens :
    (lastEvent.kind = "blur" /\ lastEvent.text = token.text)
      => /\ isValid(value)
         /\ value = add(now, token.n, token.unit)
         /\ inputValue = format(value)

\* C2, amended: after a blur with an offset token the picker value is the
\* date N days, months or years after the current instant (not after the
\* value the picker held) and the displayed text is that date in the field
\* format, with N = 0 giving the current instant as "d" does, whenever that
\* date is one a Date can hold; when it is not, the picker value is an
\* invalid date and the displayed text is empty.
C2_BlurOffset ==
  \A token \in OffsetTokens :
    (lastEvent.kind = "blur" /\ lastEvent.text = token.text)
      => LET target == add(now, token.n, token.unit)
         IN IF isValid(target)
            THEN /\ value = target
                 /\ inputValue = format(target)
                 /\ token.n = 0 => value = now
            ELSE /\ value = Invalid
                 /\ inputValue = <<>>

C2_Witness ==
  /\ lastEvent = Event("blur", <<"D", "3", "0">>)
  /\ Settled
  /\ now = Date(2024, 1, 31, 1)
  /\ value = Date(2024, 3, 1, 1)
  /\ inputValue = <<"0", "3", "/", "0", "1", "/", "2", "0", "2", "4">>

\* The short dates among the texts, with the month and the day they name.
ShortDates ==
  { [text |-> <<"4", "/", "5">>, m |-> 4, d |-> 5],
    [text |-> <<"2", "/", "2", "9">>, m |-> 2, d |-> 29],
    [text |-> <<"2", "/", "3", "0">>, m |-> 2, d |-> 30],
    [text |-> <<"1", "3", "/", "1">>, m |-> 13, d |-> 1] }

\* Month m has a day d in year y.
IsCalendarDate(y, m, d) == m \in 1..12 /\ d \in 1..daysInMonth(y, m)

\* C3, as claimed: a blur with a short date M/D sets the picker value to
\* that day of the current year and the displayed text to it in the field
\* format when the current year has such a day, and leaves both as they were
\* when it has not.
C3_ShortDate ==
  [][\A short \in ShortDates :
       (handleBlur /\ inputValue = short.text)
         => IF IsCalendarDate(now.y, short.m, short.d)
            THEN /\ value' = Date(now.y, short.m, short.d, 0)
                 /\ inputValue' = format(value')
            ELSE UNCHANGED << value, inputValue >>]_vars

ArrowKeys == {"ArrowUp", "ArrowDown", "ArrowRight", "ArrowLeft"}

\* One step of a shortcut: a year up or down, a month right or left.
OneStep(v, key) ==
  CASE key = "ArrowUp" -> AddYears(v, 1)
    [] key = "ArrowDown" -> AddYears(v, -1)
    [] key = "ArrowRight" -> AddMonths(v, 1)
    [] key = "ArrowLeft" -> AddMonths(v, -1)

\* C4, as claimed: a key-down of Ctrl with an arrow while the picker holds a
\* date moves the value one step to a date and shows it in the field
\* format; any other key-down, and any key-down while the value is null,
\* changes neither the value nor the text.
C4_Original ==
  [][\A key \in Keys, ctrlKey \in BOOLEAN :
       handleKeyDown(key, ctrlKey)
         => IF ctrlKey /\ key \in ArrowKeys /\ isValid(value)
            THEN /\ isValid(value')
                 /\ value' = OneStep(value, key)
                 /\ inputValue' = format(value')
            ELSE (~ctrlKey \/ key \notin ArrowKeys \/ IsNull(value))
                   => UNCHANGED << value, inputValue >>]_vars

\* C4, amended: a key-down of Ctrl with an arrow while the picker holds a
\* date moves the value one step (a year up or down, a month right or left)
\* and sets the text to the new value in the field format, whatever text
\* was typed, whenever the date one step away is one a Date can hold; when
\* it is not, the value becomes an invalid date and the text empty.  Any
\* other key-down, and any key-down while the value is null, changes neither
\* the value nor the text.
C4_Shortcut ==
  [][\A key \in Keys, ctrlKey \in BOOLEAN :
       handleKeyDown(key, ctrlKey)
         => IF ctrlKey /\ key \in ArrowKeys /\ isValid(value)
            THEN IF isValid(OneStep(value, key))
                 THEN /\ value' = OneStep(value, key)
                      /\ inputValue' = format(OneStep(value, key))
                 ELSE /\ value' = Invalid
                      /\ inputValue' = <<>>
            ELSE (~ctrlKey \/ key \notin ArrowKeys \/ IsNull(value))
                   => UNCHANGED << value, inputValue >>]_vars

\* Ctrl+ArrowRight on the last of January: the last of February.
C4_Witness ==
  /\ lastEvent.kind = "keydown"
  /\ nudges = 1
  /\ now = Date(2024, 1, 31, 1)
  /\ value = Date(2024, 2, 29, 1)
  /\ inputValue = <<"0", "2", "/", "2", "9", "/", "2", "0", "2", "4">>

\* A blur with the text was accepted as a date.
Accepted(text) ==
  LET outcome == BlurOutcome(text, now)
  IN outcome.setValue /\ isValid(outcome.newValue)

\* C5, as claimed: once the renders after a blur with a text accepted as a
\* date have run, the displayed text is the picker value in the field
\* format, whatever the picker held before.
C5_Reformat ==
  (lastEvent.kind = "blur" /\ Settled /\ Accepted(lastEvent.text))
    => (isValid(value) /\ inputValue = format(value))

\* The texts that match no shorthand pattern and do not parse.
GarbageTexts == { <<>>, <<"a", "b", "c">> }

\* C6: after a blur with a text that matches no shorthand pattern and does
\* not parse as a date in the field format the picker value is an invalid
\* date, and as long as the picker value is an invalid date the validation
\* error is shown.
C6_InvalidInput ==
  /\ (lastEvent.kind = "blur" /\ lastEvent.text \in GarbageTexts) => value = Invalid
  /\ value = Invalid => hasValidationError

C6_Witness ==
  /\ lastEvent = Event("blur", <<"a", "b", "c">>)
  /\ Settled
  /\ value = Invalid
  /\ hasValidationError

\* C7, as claimed: the clear button is offered exactly when the field is
\* clearable and the value is not null; a press sets the value to null and
\* the text to the empty string and calls onClear once, and after it and
\* after the renders that follow it the input has the focus.
C7_Clear ==
  [][/\ ClearOffered <=> (clearable /\ value # Null)
     /\ handleClearClick
          => /\ value' = Null
             /\ inputValue' = <<>>
             /\ cleared'
             /\ focused'
     /\ (lastEvent.kind = "clear" /\ ~Settled)
          => /\ value' = Null
             /\ inputValue' = <<>>
             /\ focused']_vars

\* C8: a change event sets the displayed text to the typed string and
\* leaves the picker value and the validation error as they were, and the
\* renders that follow it leave value and text as they are.
C8_Typing ==
  [][/\ \A text \in Typed :
          handleChange(text)
            => /\ inputValue' = text
               /\ value' = value
               /\ (validateDate(value') # "none") <=> (validateDate(value) # "none")
     /\ (lastEvent.kind = "change" /\ ~Settled)
          => UNCHANGED << value, inputValue >>]_vars

\* Typed over a picker value that holds a date, and rendered.
C8_Witness ==
  /\ lastEvent.kind = "change"
  /\ Settled
  /\ isValid(value)
  /\ inputValue = <<"a", "b", "c">>

\* C9, as claimed: once the renders after a shortcut have run, the flag is
\* reset and the input is focused with its text selected; the flag is never
\* set in a state in which the user can type.
C9_Focus ==
  /\ Settled => ~shouldMaintainFocus
  /\ (Settled /\ lastEvent.kind = "keydown")
       => (~shouldMaintainFocus /\ focused /\ selected)

\* C10, as claimed: a blur of the empty field while the picker value is null
\* leaves the value null and shows no validation error.
C10_EmptyBlur ==
  [][(handleBlur /\ IsNull(value) /\ inputValue = <<>>)
       => (IsNull(value') /\ validateDate(value') = "none")]_vars

\* C11: after every change of the picker value, to null, to a date or to an
\* invalid date, the renders and the effect of useInputValue come to rest:
\* a state is reached in which nothing is left to render or to run,
\* lastValueProp is the picker value and the displayed text is the value in
\* the field format, empty for null and for an invalid date; and an effect
\* run that sets lastValueProp again schedules no further run.
C11_Settles ==
  /\ appDirty ~> (/\ Settled
                  /\ lastValueProp = value
                  /\ inputValue = createInputValue(value))
  /\ [][RunEffects => pending' = {}]_vars

\* Cleared: the value is null, for which the condition of the effect is
\* always true, and the effect has run and is at rest.
C11_Witness ==
  /\ lastEvent.kind = "clear"
  /\ cleared
  /\ Settled
  /\ IsNull(value)
  /\ IsNull(lastValueProp)
  /\ inputValue = <<>>

====
